---- MODULE Spec2Model ----
(***************************************************************************)
(* A model of pkg/diagnostics/tracing.go: the span-context codec           *)
(* (SerializeSpanContext / DeserializeSpanContext), the three functions    *)
(* that start a span, AddEventAnnotations and SetSpanStatus.               *)
(*                                                                         *)
(* A Go string is a sequence of one-character strings, a byte array a      *)
(* sequence of numbers in 0..255.  The tracing runtime (opencensus) is     *)
(* modelled as a span table that records, per span, how it was started     *)
(* and the calls it received.                                              *)
(***************************************************************************)
EXTENDS Integers, Sequences, FiniteSets, TLC

VARIABLES spans, heap, last

vars == <<spans, heap, last>>

(***************************************************************************)
(* Bounds of the model.                                                    *)
(***************************************************************************)
\* the most ';'-separated fields of a crafted token
MaxFields == 4
\* the most events handed to one call
MaxEvents == 2
\* the most spans one behaviour of Spec starts
MaxSpans == 2

(***************************************************************************)
(* Widths of the runtime's types.                                          *)
(***************************************************************************)
\* trace.SpanID is [8]byte
SpanIDLen == 8
\* trace.TraceID is [16]byte
TraceIDLen == 16
\* trace.TraceOptions is uint32: the bitSize handed to strconv.ParseUint
OptionBits == 32

\* An unsigned number of up to 32 bits is a pair <<hi, lo>> of 16-bit limbs,
\* worth hi * 2^16 + lo, so that the full 32-bit range is kept and no
\* intermediate value leaves TLC's integers.
Limb == 2 ^ 16

U32(hi, lo) == <<hi, lo>>

\* the largest unsigned number of bitSize bits (16 <= bitSize <= 32)
MaxUint(bitSize) == U32(2 ^ (bitSize - 16) - 1, Limb - 1)

\* n * base + d, for base and d at most 10 (the hi limb may leave 16 bits)
MulAdd(n, base, d) ==
  LET lo == n[2] * base + d
  IN  U32(n[1] * base + lo \div Limb, lo % Limb)

Greater(m, n) == m[1] > n[1] \/ (m[1] = n[1] /\ m[2] > n[2])

\* n \div 10 and n % 10
DivTen(n) ==
  LET t == (n[1] % 10) * Limb + n[2]
  IN  [quot |-> U32(n[1] \div 10, t \div 10), rem |-> t % 10]

\* the conversion trace.TraceOptions(n) of a number to uint32
ToUint32(n) == U32(n[1] % (2 ^ (OptionBits - 16)), n[2])

(***************************************************************************)
(* Strings and bytes.                                                      *)
(***************************************************************************)
HexDigits == <<"0", "1", "2", "3", "4", "5", "6", "7",
               "8", "9", "a", "b", "c", "d", "e", "f">>

UpperHexDigits == <<"A", "B", "C", "D", "E", "F">>

DecDigits == SubSeq(HexDigits, 1, 10)

Sep == ";"

\* encoding/hex's reverseHexTable: the value of a hex digit of either case,
\* 255 for any other character
HexVal(c) ==
  IF \E i \in 1..16 : HexDigits[i] = c
    THEN (CHOOSE i \in 1..16 : HexDigits[i] = c) - 1
    ELSE IF \E i \in 1..6 : UpperHexDigits[i] = c
      THEN (CHOOSE i \in 1..6 : UpperHexDigits[i] = c) + 9
      ELSE 255

\* hex.EncodeToString / fmt's %02x of a byte array: two lowercase digits a byte
EncodeToString(b) ==
  [i \in 1..(2 * Len(b)) |->
     IF i % 2 = 1 THEN HexDigits[(b[(i + 1) \div 2] \div 16) + 1]
                  ELSE HexDigits[(b[i \div 2] % 16) + 1]]

\* hex.Decode's loop from pair k on, acc the bytes decoded so far: it stops at
\* the first invalid character, or at a dangling last character, and keeps
\* what it decoded before
RECURSIVE HexDecodeFrom(_, _, _)
HexDecodeFrom(s, k, acc) ==
  IF 2 * k <= Len(s)
    THEN LET a == HexVal(s[2 * k - 1])
             b == HexVal(s[2 * k])
         IN  IF a > 15 \/ b > 15
               THEN [bytes |-> acc, err |-> "InvalidByteError"]
               ELSE HexDecodeFrom(s, k + 1, Append(acc, a * 16 + b))
    ELSE IF Len(s) % 2 = 1
      THEN [bytes |-> acc,
            err |-> IF HexVal(s[Len(s)]) > 15 THEN "InvalidByteError"
                                               ELSE "ErrLength"]
      ELSE [bytes |-> acc, err |-> "nil"]

\* a hex.DecodeString that drops the decoded prefix when it fails
DecodeStringDiscard(s) ==
  LET r == HexDecodeFrom(s, 1, <<>>)
  IN  IF r.err = "nil" THEN r ELSE [bytes |-> <<>>, err |-> r.err]

\* hex.DecodeString: the bytes decoded before the error, and the error
DecodeString(s) == HexDecodeFrom(s, 1, <<>>)

\* fmt's %d of an unsigned number
RECURSIVE FormatUint(_)
FormatUint(n) ==
  LET q == DivTen(n)
  IN  IF q.quot = U32(0, 0) THEN <<DecDigits[q.rem + 1]>>
                            ELSE Append(FormatUint(q.quot), DecDigits[q.rem + 1])

IsDecDigit(c) == \E i \in 1..10 : DecDigits[i] = c

DecVal(c) == (CHOOSE i \in 1..10 : DecDigits[i] = c) - 1

\* strconv.ParseUint's loop over the characters from i on, n the value so far.
\* Its test n >= cutoff, for a product that leaves uint64, cannot fire: n never
\* exceeds maxVal < 2^32 here.
RECURSIVE ParseUintFrom(_, _, _, _, _)
ParseUintFrom(s, i, n, base, maxVal) ==
  IF i > Len(s)
    THEN [val |-> n, err |-> "nil"]
    ELSE IF ~IsDecDigit(s[i]) \/ DecVal(s[i]) >= base
      THEN [val |-> U32(0, 0), err |-> "ErrSyntax"]
      ELSE LET n1 == MulAdd(n, base, DecVal(s[i]))
           IN  IF Greater(n1, maxVal)
                 THEN [val |-> maxVal, err |-> "ErrRange"]
                 ELSE ParseUintFrom(s, i + 1, n1, base, maxVal)

\* strconv.ParseUint(s, base, bitSize) for a base up to 10 and 16..32 bits
ParseUint(s, base, bitSize) ==
  IF s = <<>> THEN [val |-> U32(0, 0), err |-> "ErrSyntax"]
              ELSE ParseUintFrom(s, 1, U32(0, 0), base, MaxUint(bitSize))

\* strings.Split(s, sep) for a one-character separator: the n separators of s
\* cut it into n + 1 fields, the k-th between the (k-1)-th and the k-th
Split(s, sep) ==
  LET cuts == {i \in 1..Len(s) : s[i] = sep}
      \* the position of the k-th separator, 0 and Len(s) + 1 at the ends
      cut(k) == IF k = 0 THEN 0
                ELSE IF k > Cardinality(cuts) THEN Len(s) + 1
                ELSE CHOOSE i \in cuts : Cardinality({j \in cuts : j < i}) = k - 1
  IN  [k \in 1..(Cardinality(cuts) + 1) |-> SubSeq(s, cut(k - 1) + 1, cut(k) - 1)]

\* the builtin copy(dst, src): the first min(len(dst), len(src)) elements
Copy(dst, src) ==
  [i \in 1..Len(dst) |-> IF i <= Len(src) THEN src[i] ELSE dst[i]]

ZeroBytes(n) == [i \in 1..n |-> 0]

\* trace.SpanContext{}
ZeroSpanContext ==
  [SpanID |-> ZeroBytes(SpanIDLen), TraceID |-> ZeroBytes(TraceIDLen),
   TraceOptions |-> U32(0, 0)]

(***************************************************************************)
(* The codec.                                                              *)
(***************************************************************************)
\* a SerializeSpanContext that writes the trace id before the span id
SerializeSwapped(ctx) ==
  EncodeToString(ctx.TraceID) \o <<Sep>> \o EncodeToString(ctx.SpanID)
    \o <<Sep>> \o FormatUint(ctx.TraceOptions)

SerializeSpanContext(ctx) ==
  EncodeToString(ctx.SpanID) \o <<Sep>> \o EncodeToString(ctx.TraceID)
    \o <<Sep>> \o FormatUint(ctx.TraceOptions)

\* a DeserializeSpanContext that pads a short token with empty fields
DeserializeGuarded(ctx) ==
  LET parts == Split(ctx, Sep) \o <<<<>>, <<>>>>
      spanID == DecodeString(parts[1]).bytes
      traceID == DecodeString(parts[2]).bytes
      traceOptions == ParseUint(parts[3], 10, OptionBits).val
  IN  [panic |-> FALSE,
       sc |-> [SpanID |-> Copy(ZeroBytes(SpanIDLen), spanID),
               TraceID |-> Copy(ZeroBytes(TraceIDLen), traceID),
               TraceOptions |-> ToUint32(traceOptions)]]

\* DeserializeSpanContext: panic is the index-out-of-range of parts[1] or
\* parts[2]; sc is the value returned when it did not panic
DeserializeSpanContext(ctx) ==
  LET parts == Split(ctx, Sep)
  IN  IF Len(parts) < 3
        THEN [panic |-> TRUE, sc |-> ZeroSpanContext]
        ELSE LET spanID == DecodeString(parts[1]).bytes
                 traceID == DecodeString(parts[2]).bytes
                 traceOptions == ParseUint(parts[3], 10, OptionBits).val
             IN  [panic |-> FALSE,
                  sc |-> [SpanID |-> Copy(ZeroBytes(SpanIDLen), spanID),
                          TraceID |-> Copy(ZeroBytes(TraceIDLen), traceID),
                          TraceOptions |-> ToUint32(traceOptions)]]

\* a DeserializeSpanContextPointer without the test for the empty string
DeserializePointerUnguarded(ctx) ==
  LET r == DeserializeSpanContext(ctx)
  IN  [panic |-> r.panic, decoded |-> TRUE, isNil |-> FALSE, sc |-> r.sc]

\* DeserializeSpanContextPointer: isNil is the nil result for the empty string
DeserializeSpanContextPointer(ctx) ==
  IF ctx = <<>>
    THEN [panic |-> FALSE, decoded |-> FALSE, isNil |-> TRUE,
          sc |-> ZeroSpanContext]
    ELSE LET r == DeserializeSpanContext(ctx)
         IN  [panic |-> r.panic, decoded |-> TRUE, isNil |-> FALSE, sc |-> r.sc]

(***************************************************************************)
(* The tracing runtime: a table of spans.  A *trace.Span is an index into  *)
(* the table, 0 the nil pointer; the context.Context a span was started    *)
(* in is the index of the span it carries, 0 for context.Background().     *)
(***************************************************************************)
\* the identifier the runtime's generator gives the n-th span
FreshID(n, width) == [i \in 1..width |-> 240 + n]

NoStatus == [set |-> FALSE, Code |-> 0, Message |-> ""]

NoAttributes == [k \in {} |-> ""]

\* the runtime's startSpanInternal: the new span takes the parent's context
\* and a new span id, and a new trace id when it has no parent
NewSpan(tbl, name, start, parent) ==
  LET n == Len(tbl) + 1
      hasParent == parent # ZeroSpanContext
  IN  [name |-> name, start |-> start, parent |-> parent,
       sc |-> [SpanID |-> FreshID(n, SpanIDLen),
               TraceID |-> IF hasParent THEN parent.TraceID
                                        ELSE FreshID(n, TraceIDLen),
               TraceOptions |-> parent.TraceOptions],
       calls |-> <<>>, attrs |-> NoAttributes, status |-> NoStatus]

\* trace.StartSpan(c, name): a child of the span c carries, else a root
StartSpan(tbl, c, name) ==
  IF c = 0 THEN NewSpan(tbl, name, "root", ZeroSpanContext)
           ELSE NewSpan(tbl, name, "child", tbl[c].sc)

\* a start that forgets the remote parent
StartSpanForgetParent(tbl, name, parent) ==
  NewSpan(tbl, name, "root", ZeroSpanContext)

\* trace.StartSpanWithRemoteParent(context.Background(), name, parent)
StartSpanWithRemoteParent(tbl, name, parent) ==
  NewSpan(tbl, name, "remote", parent)

\* trace.StringAttribute(key, value)
StringAttribute(key, value) == [key |-> key, value |-> value]

\* the attribute map after the attributes of attrs were set in order
MergeAttributes(m, attrs) ==
  LET keys == {attrs[i].key : i \in DOMAIN attrs}
      lastOf(k) == CHOOSE i \in DOMAIN attrs :
                     /\ attrs[i].key = k
                     /\ \A j \in DOMAIN attrs : attrs[j].key = k => j <= i
  IN  [k \in (DOMAIN m) \cup keys |->
         IF k \in keys THEN attrs[lastOf(k)].value ELSE m[k]]

\* span.Annotate(attrs, message)
SpanAnnotate(span, attrs, message) ==
  [span EXCEPT !.calls = Append(@, [kind |-> "Annotate", attrs |-> attrs,
                                    message |-> message])]

\* span.AddAttributes(attrs...)
SpanAddAttributes(span, attrs) ==
  [span EXCEPT !.calls = Append(@, [kind |-> "AddAttributes", attrs |-> attrs,
                                    message |-> ""]),
               !.attrs = MergeAttributes(@, attrs)]

\* a SetStatus that keeps a status already set
SpanSetStatusOnce(span, code, message) ==
  IF span.status.set THEN span
  ELSE [span EXCEPT !.status = [set |-> TRUE, Code |-> code, Message |-> message]]

\* span.SetStatus(trace.Status{Code: code, Message: message})
SpanSetStatus(span, code, message) ==
  [span EXCEPT !.status = [set |-> TRUE, Code |-> code, Message |-> message]]

\* a &trace.SpanContext{} that hands out one shared object
NewSpanContextShared(h) == 1

\* &trace.SpanContext{}: the address of a newly allocated object
NewSpanContext(h) == Len(h) + 1

\* *addr = value
Store(h, addr, value) ==
  [a \in 1..(IF addr > Len(h) THEN addr ELSE Len(h)) |->
     IF a = addr THEN value ELSE h[a]]

(***************************************************************************)
(* Events and their annotations.                                           *)
(***************************************************************************)
\* time.Time.String() of the two times the model uses
TimeString(t) ==
  IF t = "zero" THEN "0001-01-01 00:00:00 +0000 UTC"
                ELSE "2019-10-16 12:00:00 +0000 UTC"

\* fmt.Sprintf("%v", data) of an interface{} holding nil, a string or a bool
Sprint(data) ==
  CASE data.kind = "nil" -> "<nil>"
    [] data.kind = "string" -> data.str
    [] data.kind = "bool" -> IF data.str = "1" THEN "true" ELSE "false"

\* strings.Join(elems, sep)
RECURSIVE Join(_, _)
Join(elems, sep) ==
  IF Len(elems) = 0 THEN ""
  ELSE IF Len(elems) = 1 THEN elems[1]
  ELSE elems[1] \o sep \o Join(Tail(elems), sep)

\* the four attributes of an event (lines 127-132)
EventAttributes(e) ==
  <<StringAttribute("eventName", e.EventName),
    StringAttribute("createdAt", TimeString(e.CreatedAt)),
    StringAttribute("concurrency", e.Concurrency),
    StringAttribute("to", Join(e.To, ","))>>

\* one turn of the loop that adds data before the annotation
AnnotateEventEarlyData(span, e, includeEventBody) ==
  LET attrs == IF includeEventBody
                 THEN Append(EventAttributes(e),
                             StringAttribute("data", Sprint(e.Data)))
                 ELSE EventAttributes(e)
  IN  SpanAddAttributes(SpanAnnotate(span, attrs, "message"), attrs)

\* one turn of AddEventAnnotations's loop
AnnotateEvent(span, e, includeEventBody) ==
  LET attrs == EventAttributes(e)
      annotated == SpanAnnotate(span, attrs, "message")
      withBody == IF includeEventBody
                    THEN Append(attrs, StringAttribute("data", Sprint(e.Data)))
                    ELSE attrs
  IN  SpanAddAttributes(annotated, withBody)

RECURSIVE AnnotateBatched(_, _, _, _)
AnnotateBatched(span, events, i, includeEventBody) ==
  IF i > 2 * Len(events) THEN span
  ELSE IF i <= Len(events)
    THEN AnnotateBatched(SpanAnnotate(span, EventAttributes(events[i]), "message"),
                         events, i + 1, includeEventBody)
    ELSE LET e == events[i - Len(events)]
             attrs == IF includeEventBody
                        THEN Append(EventAttributes(e),
                                    StringAttribute("data", Sprint(e.Data)))
                        ELSE EventAttributes(e)
         IN  AnnotateBatched(SpanAddAttributes(span, attrs), events, i + 1,
                             includeEventBody)

\* an AddEventAnnotations that annotates every event, then adds every
\* event's attributes
AddEventAnnotationsBatched(events, span, includeEventBody) ==
  AnnotateBatched(span, events, 1, includeEventBody)

RECURSIVE AnnotateFrom(_, _, _, _)
AnnotateFrom(span, events, i, includeEventBody) ==
  IF i > Len(events) THEN span
  ELSE AnnotateFrom(AnnotateEvent(span, events[i], includeEventBody),
                    events, i + 1, includeEventBody)

\* AddEventAnnotations(events, span, includeEventBody): the span afterwards
AddEventAnnotations(events, span, includeEventBody) ==
  AnnotateFrom(span, events, 1, includeEventBody)

\* the attribute list without verbMethod
CorrelationAttributesShort(actionMethod, targetID, from, verbMethod) ==
  <<StringAttribute("actionMethod", actionMethod),
    StringAttribute("targetID", targetID),
    StringAttribute("from", from)>>

\* the attribute list of TraceSpanFromCorrelationId (lines 74-79)
CorrelationAttributes(actionMethod, targetID, from, verbMethod) ==
  <<StringAttribute("actionMethod", actionMethod),
    StringAttribute("targetID", targetID),
    StringAttribute("from", from),
    StringAttribute("verbMethod", verbMethod)>>

(***************************************************************************)
(* The calls.  last is the call made last: its arguments and its outcome;  *)
(* before is the number of calls the span had received when                *)
(* AddEventAnnotations was called on it, prior the status it had when      *)
(* SetSpanStatus was.                                                      *)
(***************************************************************************)
NoCall ==
  [op |-> "none", token |-> <<>>, id |-> ZeroSpanContext, out |-> <<>>,
   request |-> "none", events |-> <<>>, includeEvent |-> FALSE,
   includeEventBody |-> FALSE, args |-> <<>>, code |-> 0, message |-> "",
   panic |-> FALSE, decoded |-> FALSE, isNil |-> FALSE,
   ret |-> ZeroSpanContext, span |-> 0, snap |-> 0, before |-> 0,
   prior |-> NoStatus]

Init ==
  /\ spans = <<>>
  /\ heap = <<>>
  /\ last = NoCall

CallSerializeSpanContext(x) ==
  /\ last' = [NoCall EXCEPT !.op = "SerializeSpanContext", !.id = x,
                            !.out = SerializeSpanContext(x)]
  /\ UNCHANGED <<spans, heap>>

CallDeserializeSpanContext(tok) ==
  LET r == DeserializeSpanContext(tok)
  IN  /\ last' = [NoCall EXCEPT !.op = "DeserializeSpanContext", !.token = tok,
                                !.decoded = TRUE, !.panic = r.panic,
                                !.ret = r.sc]
      /\ UNCHANGED <<spans, heap>>

CallDeserializeSpanContextPointer(tok) ==
  LET r == DeserializeSpanContextPointer(tok)
  IN  /\ last' = [NoCall EXCEPT !.op = "DeserializeSpanContextPointer",
                                !.token = tok, !.decoded = r.decoded,
                                !.panic = r.panic, !.isNil = r.isNil,
                                !.ret = r.sc]
      /\ UNCHANGED <<spans, heap>>

TraceSpanFromCorrelationId(corID, operation, actionMethod, targetID, from, verbMethod) ==
  LET r == DeserializeSpanContext(corID)
      called == [NoCall EXCEPT !.op = "TraceSpanFromCorrelationId",
                               !.token = corID,
                               !.args = <<operation, actionMethod, targetID,
                                          from, verbMethod>>,
                               !.decoded = (corID # <<>>)]
  IN  IF corID # <<>> /\ r.panic
        THEN /\ last' = [called EXCEPT !.panic = TRUE]
             /\ UNCHANGED <<spans, heap>>
        ELSE LET started == IF corID # <<>>
                              THEN StartSpanWithRemoteParent(spans, operation, r.sc)
                              ELSE StartSpan(spans, 0, operation)
                 attrs == CorrelationAttributes(actionMethod, targetID, from,
                                                verbMethod)
                 span == SpanAddAttributes(
                           SpanAnnotate(started, attrs, "actionCall"), attrs)
             IN  /\ spans' = Append(spans, span)
                 /\ last' = [called EXCEPT !.span = Len(spans) + 1]
                 /\ UNCHANGED heap

TraceSpanFromContext(c, events, operation, includeEvent, includeEventBody) ==
  LET started == StartSpan(spans, c, operation)
      span == IF includeEvent
                THEN AddEventAnnotations(events, started, includeEventBody)
                ELSE started
      context == NewSpanContext(heap)
  IN  /\ spans' = Append(spans, span)
      /\ heap' = Store(Store(heap, context, ZeroSpanContext), context, span.sc)
      /\ last' = [NoCall EXCEPT !.op = "TraceSpanFromContext",
                                !.events = events,
                                !.includeEvent = includeEvent,
                                !.includeEventBody = includeEventBody,
                                !.args = <<operation>>,
                                !.span = Len(spans) + 1, !.snap = context]

\* The routing context c is NilRequest, or a request with or without the
\* correlation-id header; Peek of a missing header gives the empty string.
NilRequest == [kind |-> "nil", value |-> <<>>]

NoHeaderRequest == [kind |-> "noheader", value |-> <<>>]

HeaderRequest(tok) == [kind |-> "header", value |-> tok]

Peek(c) == IF c.kind = "header" THEN c.value ELSE <<>>

TraceSpanFromRoutingContext(c, events, operation, includeEvent, includeEventBody) ==
  LET corID == Peek(c)
      decode == c # NilRequest /\ corID # <<>>
      r == DeserializeSpanContext(corID)
      called == [NoCall EXCEPT !.op = "TraceSpanFromRoutingContext",
                               !.request = c.kind, !.token = c.value,
                               !.events = events,
                               !.includeEvent = includeEvent,
                               !.includeEventBody = includeEventBody,
                               !.args = <<operation>>, !.decoded = decode]
  IN  IF decode /\ r.panic
        THEN /\ last' = [called EXCEPT !.panic = TRUE]
             /\ UNCHANGED <<spans, heap>>
        ELSE LET started == IF c = NilRequest
                              THEN StartSpan(spans, 0, operation)
                              ELSE IF corID # <<>>
                                THEN StartSpanWithRemoteParent(spans, operation, r.sc)
                                ELSE StartSpan(spans, 0, operation)
                 span == IF includeEvent
                           THEN AddEventAnnotations(events, started, includeEventBody)
                           ELSE started
                 ptr == Len(spans) + 1
                 context == NewSpanContext(heap)
             IN  /\ spans' = Append(spans, span)
                 /\ IF ptr # 0
                      THEN /\ heap' = Store(Store(heap, context, ZeroSpanContext),
                                            context, span.sc)
                           /\ last' = [called EXCEPT !.span = ptr, !.snap = context]
                      ELSE /\ heap' = heap
                           /\ last' = [called EXCEPT !.span = ptr]

\* a direct call of AddEventAnnotations on the span i
CallAddEventAnnotations(events, i, includeEventBody) ==
  /\ i \in 1..Len(spans)
  /\ spans' = [spans EXCEPT ![i] = AddEventAnnotations(events, @, includeEventBody)]
  /\ last' = [NoCall EXCEPT !.op = "AddEventAnnotations", !.events = events,
                            !.includeEventBody = includeEventBody,
                            !.span = i, !.before = Len(spans[i].calls)]
  /\ UNCHANGED heap

\* SetSpanStatus(span, code, message), span = 0 the nil span
SetSpanStatus(span, code, message) ==
  /\ span \in 0..Len(spans)
  /\ IF span # 0
       THEN spans' = [spans EXCEPT ![span] = SpanSetStatus(@, code, message)]
       ELSE spans' = spans
  /\ last' = [NoCall EXCEPT !.op = "SetSpanStatus", !.span = span,
                            !.code = code, !.message = message,
                            !.prior = IF span # 0 THEN spans[span].status
                                                  ELSE NoStatus]
  /\ UNCHANGED heap

(***************************************************************************)
(* The inputs.                                                             *)
(***************************************************************************)
\* the byte array seed, seed + step, seed + 2 * step, ...
ByteSeq(width, seed, step) == [i \in 1..width |-> (seed + (i - 1) * step) % 256]

SpanIDs == {ByteSeq(SpanIDLen, seed, step) : seed \in {0, 1, 171, 255}, step \in {0, 17}}

TraceIDs == {ByteSeq(TraceIDLen, seed, step) : seed \in {0, 2, 205, 254}, step \in {0, 19}}

Options == {U32(0, 0), U32(0, 1), U32(0, 255), U32(1, 0), U32(0, Limb - 1),
            U32(Limb - 1, Limb - 1)}

\* the span identities with full-width identifiers
Identities ==
  {[SpanID |-> sp, TraceID |-> tr, TraceOptions |-> o] :
     sp \in SpanIDs, tr \in TraceIDs, o \in Options}

\* fields of crafted tokens: the empty field, "01zz" (hex with a bad tail),
\* "012" (hex of odd length, a number with a leading zero), a full trace id,
\* "4294967296" (the first number too large) and "9999999999z" (too large
\* before its bad tail)
Fields ==
  {<<>>,
   <<"0", "1", "z", "z">>,
   <<"0", "1", "2">>,
   EncodeToString(ByteSeq(TraceIDLen, 171, 0)),
   <<"4", "2", "9", "4", "9", "6", "7", "2", "9", "6">>,
   <<"9", "9", "9", "9", "9", "9", "9", "9", "9", "9", "z">>}

RECURSIVE JoinFields(_, _)
JoinFields(fields, sep) ==
  IF Len(fields) = 1 THEN fields[1]
  ELSE fields[1] \o <<sep>> \o JoinFields(Tail(fields), sep)

CraftedTokens ==
  UNION {{JoinFields(fs, Sep) : fs \in [1..n -> Fields]} : n \in 1..MaxFields}

\* the two identities the correlation ids of the tracing calls carry
IdentityA ==
  [SpanID |-> ByteSeq(SpanIDLen, 1, 17), TraceID |-> ByteSeq(TraceIDLen, 205, 19),
   TraceOptions |-> U32(0, 1)]

IdentityB ==
  [SpanID |-> ByteSeq(SpanIDLen, 255, 0), TraceID |-> ByteSeq(TraceIDLen, 2, 0),
   TraceOptions |-> U32(Limb - 1, Limb - 1)]

ValidTokens == {SerializeSpanContext(IdentityA), SerializeSpanContext(IdentityB)}

\* "abc;def", "abc", "abc;def;1" and ";;"
ShortTokens == {<<"a", "b", "c", ";", "d", "e", "f">>, <<"a", "b", "c">>}

OddTokens == {<<"a", "b", "c", ";", "d", "e", "f", ";", "1">>, <<";", ";">>}

TraceTokens == {<<>>} \cup ValidTokens \cup ShortTokens \cup OddTokens

Requests(toks) == {NilRequest, NoHeaderRequest} \cup {HeaderRequest(tok) : tok \in toks}

NilData == [kind |-> "nil", str |-> ""]

StringData(str) == [kind |-> "string", str |-> str]

EventA ==
  [EventName |-> "order", To |-> <<"a", "b">>, Concurrency |-> "parallel",
   CreatedAt |-> "t1", Data |-> StringData("body")]

\* every field empty, the data nil
EventB ==
  [EventName |-> "", To |-> <<>>, Concurrency |-> "", CreatedAt |-> "zero",
   Data |-> NilData]

Events == {EventA, EventB}

EventLists == UNION {[1..n -> Events] : n \in 0..MaxEvents}

Statuses == {[Code |-> 0, Message |-> "OK"], [Code |-> 2, Message |-> "failed"]}

\* operation, actionMethod, targetID, from, verbMethod
ArgLists == {<<"op", "am", "tid", "from", "vm">>, <<"invoke", "", "tid", "tid", "GET">>}

\* a direct call of AddEventAnnotations may not take a span past this many calls
CallCap == 2 * MaxEvents

(***************************************************************************)
(* SpecCodec: the codec alone.  A behaviour starts with the argument of    *)
(* one call, an identity or a crafted token, in last; the call is made,    *)
(* and a token that SerializeSpanContext returned is decoded again.        *)
(***************************************************************************)
InitCodec ==
  /\ spans = <<>>
  /\ heap = <<>>
  /\ last \in {[NoCall EXCEPT !.id = x] : x \in Identities}
              \cup {[NoCall EXCEPT !.token = tok] : tok \in CraftedTokens}

NextCodec ==
  \/ last.op = "none" /\ CallSerializeSpanContext(last.id)
  \/ last.op = "none" /\ CallDeserializeSpanContext(last.token)
  \/ last.op = "none" /\ CallDeserializeSpanContextPointer(last.token)
  \/ last.op = "SerializeSpanContext" /\ CallDeserializeSpanContext(last.out)
  \/ last.op = "SerializeSpanContext" /\ CallDeserializeSpanContextPointer(last.out)

SpecCodec == InitCodec /\ [][NextCodec]_vars

(***************************************************************************)
(* SpecCall: one call of a function of the package on a fresh runtime,     *)
(* with any argument; after a call that started a span, one direct call   *)
(* of AddEventAnnotations on that span, or calls of SetSpanStatus.         *)
(***************************************************************************)
StartCalls ==
  {"TraceSpanFromCorrelationId", "TraceSpanFromContext", "TraceSpanFromRoutingContext"}

NextCall ==
  \/ /\ last.op = "none"
     /\ \E tok \in TraceTokens : CallDeserializeSpanContext(tok)
  \/ /\ last.op = "none"
     /\ \E tok \in TraceTokens : CallDeserializeSpanContextPointer(tok)
  \/ /\ last.op = "none"
     /\ \E tok \in TraceTokens, a \in ArgLists :
          TraceSpanFromCorrelationId(tok, a[1], a[2], a[3], a[4], a[5])
  \/ /\ last.op = "none"
     /\ \E events \in EventLists, ie \in BOOLEAN, ieb \in BOOLEAN :
          TraceSpanFromContext(0, events, "op", ie, ieb)
  \/ /\ last.op = "none"
     /\ \E c \in Requests(TraceTokens), events \in EventLists, ie \in BOOLEAN,
           ieb \in BOOLEAN :
          TraceSpanFromRoutingContext(c, events, "op", ie, ieb)
  \/ /\ last.op \in StartCalls
     /\ last.span # 0
     /\ \E events \in EventLists, ieb \in BOOLEAN :
          CallAddEventAnnotations(events, last.span, ieb)
  \/ /\ last.op \in StartCalls \cup {"SetSpanStatus"}
     /\ \E i \in 0..Len(spans), st \in Statuses :
          SetSpanStatus(i, st.Code, st.Message)

SpecCall == Init /\ [][NextCall]_vars

(***************************************************************************)
(* Spec: calls in any order on up to MaxSpans live spans, each span with   *)
(* at most MaxEvents annotated events.                                     *)
(***************************************************************************)
LiveRequests == Requests({SerializeSpanContext(IdentityA)})

Next ==
  \/ /\ Len(spans) < MaxSpans
     /\ \E c \in 0..Len(spans), ie \in BOOLEAN :
          TraceSpanFromContext(c, <<EventA>>, "op", ie, FALSE)
  \/ /\ Len(spans) < MaxSpans
     /\ \E c \in LiveRequests, ie \in BOOLEAN :
          TraceSpanFromRoutingContext(c, <<EventA>>, "op", ie, FALSE)
  \/ \E i \in 1..Len(spans) :
       /\ Len(spans[i].calls) + 2 <= CallCap
       /\ CallAddEventAnnotations(<<EventA>>, i, FALSE)
  \/ \E i \in 0..Len(spans) : SetSpanStatus(i, 2, "failed")

Spec == Init /\ [][Next]_vars

(***************************************************************************)
(* The claims.                                                             *)
(***************************************************************************)
\* every identity with the token that encodes it
Encoded == {<<x, SerializeSpanContext(x)>> : x \in Identities}

\* the span the last call returned
Returned == spans[last.span]

\* C1: decoding the token that encodes an identity with full-width span and
\* trace identifiers and any 32-bit options gives that identity back.
C1_RoundTrip ==
  \A p \in Encoded :
    (last.op = "DeserializeSpanContext" /\ last.token = p[2])
      => (~last.panic /\ last.ret = p[1])

\* the largest options survive the round trip
C1_Witness ==
  /\ last.op = "DeserializeSpanContext"
  /\ last.token = SerializeSpanContext(IdentityB)
  /\ last.ret = IdentityB

\* the fields of the token of the last call
Parts == Split(last.token, Sep)

\* the number of valid hex pairs a field starts with
HexPairs(f) ==
  CHOOSE k \in 0..(Len(f) \div 2) :
    /\ \A j \in 1..k : HexVal(f[2 * j - 1]) <= 15 /\ HexVal(f[2 * j]) <= 15
    /\ \/ k = Len(f) \div 2
       \/ HexVal(f[2 * k + 1]) > 15
       \/ HexVal(f[2 * k + 2]) > 15

\* the hex-decode of a field fails: an invalid character or an odd length
HexFails(f) == Len(f) % 2 = 1 \/ HexPairs(f) < Len(f) \div 2

\* the first width bytes of a field's valid hex pairs, zero after them
PrefixBytes(f, width) ==
  LET n == HexPairs(f)
  IN  [i \in 1..width |->
         IF i <= n THEN HexVal(f[2 * i - 1]) * 16 + HexVal(f[2 * i]) ELSE 0]

\* the decimal digits a field starts with, without leading zeros
DigitPrefix(f) ==
  LET k == CHOOSE n \in 0..Len(f) :
             /\ \A j \in 1..n : IsDecDigit(f[j])
             /\ (n = Len(f) \/ ~IsDecDigit(f[n + 1]))
      z == CHOOSE n \in 0..k :
             /\ \A j \in 1..n : f[j] = "0"
             /\ (n = k \/ f[n + 1] # "0")
  IN  [len |-> k, digits |-> SubSeq(f, z + 1, k)]

MaxDecimal == <<"4", "2", "9", "4", "9", "6", "7", "2", "9", "5">>

\* the digits d, without leading zeros, spell a number above 2^32 - 1
TooLarge(d) ==
  \/ Len(d) > Len(MaxDecimal)
  \/ /\ Len(d) = Len(MaxDecimal)
     /\ \E i \in 1..Len(d) :
          /\ \A j \in 1..(i - 1) : d[j] = MaxDecimal[j]
          /\ DecVal(d[i]) > DecVal(MaxDecimal[i])

\* the base-10 32-bit parse of a field fails: empty, not a digit, out of range
ParseFails(f) ==
  Len(f) = 0 \/ DigitPrefix(f).len < Len(f) \/ TooLarge(DigitPrefix(f).digits)

\* v is the number the digits of the field f spell
Spells(f, v) ==
  FormatUint(v) = IF DigitPrefix(f).digits = <<>> THEN <<"0">>
                                                  ELSE DigitPrefix(f).digits

\* C2 as claimed: a token of three fields or more decodes without an error,
\* and a field that fails to parse leaves its sub-field at zero while the
\* others are decoded normally.
C2_FailedFieldIsZero ==
  (last.op = "DeserializeSpanContext" /\ Len(Parts) >= 3) =>
    /\ ~last.panic
    /\ last.ret.SpanID = IF HexFails(Parts[1]) THEN ZeroBytes(SpanIDLen)
                                               ELSE PrefixBytes(Parts[1], SpanIDLen)
    /\ last.ret.TraceID = IF HexFails(Parts[2]) THEN ZeroBytes(TraceIDLen)
                                                ELSE PrefixBytes(Parts[2], TraceIDLen)
    /\ IF ParseFails(Parts[3]) THEN last.ret.TraceOptions = U32(0, 0)
                               ELSE Spells(Parts[3], last.ret.TraceOptions)

\* C2 amended: a token of three fields or more decodes without an error; a
\* hex field that fails leaves the bytes decoded before the failure in its
\* sub-field, zero after them; a number that fails leaves 0 when it is empty
\* or has a character that is no digit, and 2^32 - 1 when it is out of range
\* (also when a bad character follows the digits that are out of range); the
\* other sub-fields are decoded normally.
C2_FailedFieldKeepsPrefix ==
  (last.op = "DeserializeSpanContext" /\ Len(Parts) >= 3) =>
    /\ ~last.panic
    /\ last.ret.SpanID = PrefixBytes(Parts[1], SpanIDLen)
    /\ last.ret.TraceID = PrefixBytes(Parts[2], TraceIDLen)
    /\ IF TooLarge(DigitPrefix(Parts[3]).digits)
         THEN last.ret.TraceOptions = U32(Limb - 1, Limb - 1)
         ELSE IF ParseFails(Parts[3])
           THEN last.ret.TraceOptions = U32(0, 0)
           ELSE Spells(Parts[3], last.ret.TraceOptions)

\* "01zz;012;4294967296": the span id and the trace id keep the byte 01,
\* the options are 2^32 - 1
C2_Witness ==
  /\ last.op = "DeserializeSpanContext"
  /\ Len(Parts) >= 3
  /\ HexFails(Parts[1]) /\ last.ret.SpanID[1] = 1
  /\ HexFails(Parts[2]) /\ last.ret.TraceID[1] = 1
  /\ ParseFails(Parts[3]) /\ last.ret.TraceOptions = U32(Limb - 1, Limb - 1)

\* the last call handed its token to DeserializeSpanContext's callers with a
\* non-empty token, or to DeserializeSpanContext itself
TokenGiven ==
  \/ last.op = "DeserializeSpanContext"
  \/ /\ last.op \in {"DeserializeSpanContextPointer", "TraceSpanFromCorrelationId"}
     /\ last.token # <<>>
  \/ /\ last.op = "TraceSpanFromRoutingContext"
     /\ last.request = "header"
     /\ last.token # <<>>

\* C3: a token of fewer than three fields, given to DeserializeSpanContext
\* (also the empty one) or, non-empty, to DeserializeSpanContextPointer,
\* TraceSpanFromCorrelationId or TraceSpanFromRoutingContext, ends the call
\* in the out-of-range panic: no identity, no span and no snapshot come back.
C3_MalformedToken ==
  (TokenGiven /\ Len(Parts) < 3) =>
    /\ last.panic
    /\ last.decoded
    /\ ~last.isNil
    /\ last.span = 0
    /\ last.snap = 0
    /\ spans = <<>>

\* "abc;def" in the correlation-id header of an inbound request
C3_Witness ==
  /\ last.op = "TraceSpanFromRoutingContext"
  /\ last.request = "header"
  /\ last.token = <<"a", "b", "c", ";", "d", "e", "f">>
  /\ last.panic

\* the last call was given no correlation id
TokenAbsent ==
  \/ /\ last.op \in {"DeserializeSpanContextPointer", "TraceSpanFromCorrelationId"}
     /\ last.token = <<>>
  \/ /\ last.op = "TraceSpanFromRoutingContext"
     /\ (last.request \in {"nil", "noheader"} \/ last.token = <<>>)

\* C4: without a correlation id nothing is decoded and nothing fails:
\* DeserializeSpanContextPointer("") returns nil, and
\* TraceSpanFromCorrelationId and TraceSpanFromRoutingContext (nil request,
\* no header, empty header) start a root span.
C4_AbsenceHandling ==
  TokenAbsent =>
    /\ ~last.panic
    /\ ~last.decoded
    /\ IF last.op = "DeserializeSpanContextPointer"
         THEN last.isNil
         ELSE /\ last.span # 0
              /\ Returned.start = "root"
              /\ Returned.parent = ZeroSpanContext

\* a request without the correlation-id header starts a root span
C4_Witness ==
  /\ last.op = "TraceSpanFromRoutingContext"
  /\ last.request = "noheader"
  /\ last.span # 0
  /\ Returned.start = "root"

\* the two identities of the correlation ids, each with its token
EncodedTrace == {<<x, SerializeSpanContext(x)>> : x \in {IdentityA, IdentityB}}

\* C5: with the token that encodes an identity, TraceSpanFromCorrelationId
\* and TraceSpanFromRoutingContext start the span with that identity as its
\* remote parent, so the span is in the parent's trace; a non-empty token
\* never gives a root span.
C5_RemoteParenting ==
  /\ \A p \in EncodedTrace :
       (TokenGiven /\ last.op \in StartCalls /\ last.token = p[2]) =>
         /\ ~last.panic
         /\ last.span # 0
         /\ Returned.start = "remote"
         /\ Returned.parent = p[1]
         /\ Returned.sc.TraceID = p[1].TraceID
  /\ (TokenGiven /\ last.op \in StartCalls /\ ~last.panic) =>
       /\ last.span # 0
       /\ Returned.start = "remote"
       /\ Returned.parent = DeserializeSpanContext(last.token).sc

C5_Witness ==
  /\ last.op = "TraceSpanFromCorrelationId"
  /\ last.token = SerializeSpanContext(IdentityA)
  /\ last.span # 0
  /\ Returned.parent = IdentityA
  /\ Returned.start = "remote"

\* the last call ran AddEventAnnotations
Annotated ==
  \/ last.op = "AddEventAnnotations"
  \/ /\ last.op \in {"TraceSpanFromContext", "TraceSpanFromRoutingContext"}
     /\ last.includeEvent
     /\ ~last.panic

\* the k-th call the span received from the last call's AddEventAnnotations
NewCall(k) == Returned.calls[last.before + k]

\* the values an attribute list gives the key
ValuesOf(attrs, key) == {attrs[i].value : i \in {j \in DOMAIN attrs : attrs[j].key = key}}

KeysOf(attrs) == [i \in DOMAIN attrs |-> attrs[i].key]

\* the attribute list describes the event e
Describes(attrs, e) ==
  /\ ValuesOf(attrs, "eventName") = {e.EventName}
  /\ ValuesOf(attrs, "concurrency") = {e.Concurrency}
  /\ ValuesOf(attrs, "createdAt") = {TimeString(e.CreatedAt)}
  /\ ValuesOf(attrs, "to") = {IF e.To = <<>> THEN ""
                              ELSE IF Len(e.To) = 1 THEN e.To[1]
                              ELSE e.To[1] \o "," \o e.To[2]}

\* C6: for the events e1..en AddEventAnnotations makes exactly 2n calls on
\* the span: for each event in input order an Annotate with the message
\* "message" and then an AddAttributes, both of that event; no event is
\* skipped, and an event with an empty To has the attribute to = "".
C6_AnnotationOrdering ==
  Annotated =>
    /\ Len(Returned.calls) = last.before + 2 * Len(last.events)
    /\ \A i \in 1..Len(last.events) :
         /\ NewCall(2 * i - 1).kind = "Annotate"
         /\ NewCall(2 * i - 1).message = "message"
         /\ Describes(NewCall(2 * i - 1).attrs, last.events[i])
         /\ NewCall(2 * i).kind = "AddAttributes"
         /\ Describes(NewCall(2 * i).attrs, last.events[i])

\* a direct call with the events EventA, EventB on a span that had calls:
\* the third new call annotates EventB with to = ""
C6_Witness ==
  /\ last.op = "AddEventAnnotations"
  /\ last.events = <<EventA, EventB>>
  /\ last.before > 0
  /\ NewCall(3).kind = "Annotate"
  /\ ValuesOf(NewCall(3).attrs, "to") = {""}
  /\ NewCall(2).kind = "AddAttributes"
  /\ ValuesOf(NewCall(2).attrs, "to") = {"a,b"}

\* C7: without includeEventBody no call of AddEventAnnotations carries a
\* data attribute; with it every AddAttributes carries data, the rendering
\* of the event's data ("<nil>" for nil), as its fifth attribute, and every
\* Annotate only eventName, createdAt, concurrency and to.
C7_BodyToggle ==
  Annotated =>
    \A i \in 1..Len(last.events) :
      /\ last.before + 2 * i <= Len(Returned.calls)
      /\ KeysOf(NewCall(2 * i - 1).attrs)
           = <<"eventName", "createdAt", "concurrency", "to">>
      /\ IF last.includeEventBody
           THEN /\ KeysOf(NewCall(2 * i).attrs)
                     = <<"eventName", "createdAt", "concurrency", "to", "data">>
                /\ NewCall(2 * i).attrs[5].value
                     = IF last.events[i].Data.kind = "nil"
                         THEN "<nil>" ELSE last.events[i].Data.str
           ELSE KeysOf(NewCall(2 * i).attrs)
                  = <<"eventName", "createdAt", "concurrency", "to">>

\* nil data is attached as "<nil>"
C7_Witness ==
  /\ last.op = "TraceSpanFromRoutingContext"
  /\ last.includeEvent /\ last.includeEventBody
  /\ last.events = <<EventB, EventA>>
  /\ last.span # 0
  /\ NewCall(2).attrs[5] = StringAttribute("data", "<nil>")
  /\ NewCall(4).attrs[5] = StringAttribute("data", "body")
  /\ Len(NewCall(1).attrs) = 4

\* C8: TraceSpanFromCorrelationId, with the empty token and with a token
\* that decodes, returns a span that received one annotation "actionCall"
\* with the four attributes and whose attributes are exactly actionMethod,
\* targetID, from and verbMethod with the values given.
C8_AttributeCompleteness ==
  (last.op = "TraceSpanFromCorrelationId" /\ ~last.panic) =>
    /\ last.span # 0
    /\ DOMAIN Returned.attrs = {"actionMethod", "targetID", "from", "verbMethod"}
    /\ Returned.attrs["actionMethod"] = last.args[2]
    /\ Returned.attrs["targetID"] = last.args[3]
    /\ Returned.attrs["from"] = last.args[4]
    /\ Returned.attrs["verbMethod"] = last.args[5]
    /\ Cardinality({k \in DOMAIN Returned.calls :
                      Returned.calls[k].kind = "Annotate"}) = 1
    /\ \A k \in DOMAIN Returned.calls :
         Returned.calls[k].kind = "Annotate" =>
           /\ Returned.calls[k].message = "actionCall"
           /\ Returned.calls[k].attrs
                = <<StringAttribute("actionMethod", last.args[2]),
                    StringAttribute("targetID", last.args[3]),
                    StringAttribute("from", last.args[4]),
                    StringAttribute("verbMethod", last.args[5])>>

C8_Witness ==
  /\ last.op = "TraceSpanFromCorrelationId"
  /\ last.token = SerializeSpanContext(IdentityA)
  /\ last.span # 0
  /\ Returned.start = "remote"
  /\ Returned.attrs["verbMethod"] = "vm"
  /\ Returned.attrs["from"] = "from"

\* the last call returned a snapshot equal to the identity of its span
SnapshotTaken ==
  (last.op \in {"TraceSpanFromContext", "TraceSpanFromRoutingContext"}
     /\ last.span # 0) =>
    /\ last.snap \in 1..Len(heap)
    /\ heap[last.snap] = Returned.sc

\* a step leaves every snapshot taken before as it was
SnapshotsKept ==
  \A a \in 1..Len(heap) : a \in 1..Len(heap') /\ heap'[a] = heap[a]

\* a step that starts a span returns no snapshot taken before
SnapshotFresh ==
  (Len(spans') > Len(spans) /\ last'.snap # 0) => last'.snap \notin 1..Len(heap)

\* C9: TraceSpanFromContext, and TraceSpanFromRoutingContext when it
\* started a span, return a non-nil snapshot equal to the new span's
\* identity; no later call (annotations, attributes, a status, another span
\* started) changes a snapshot, and the snapshots of two calls are two
\* objects.
C9_SnapshotIndependence ==
  []SnapshotTaken /\ [][SnapshotsKept /\ SnapshotFresh]_vars

\* two snapshots, and the first span was given a status after its own
C9_Witness ==
  /\ last.op = "SetSpanStatus"
  /\ last.span = 1
  /\ Len(heap) = 2
  /\ heap[1] = spans[1].sc
  /\ heap[2] = spans[2].sc
  /\ heap[1] # heap[2]
  /\ spans[1].status.set
  /\ Len(spans[1].calls) > 0

\* after SetSpanStatus on a span its status is the code and message given
StatusIsLast ==
  (last.op = "SetSpanStatus" /\ last.span # 0) =>
    spans[last.span].status
      = [set |-> TRUE, Code |-> last.code, Message |-> last.message]

\* SetSpanStatus on the nil span changes nothing and does not fail
NilStatusNoOp ==
  (last'.op = "SetSpanStatus" /\ last'.span = 0) =>
    (spans' = spans /\ heap' = heap /\ ~last'.panic)

\* SetSpanStatus with the code and message the span has changes nothing
SameStatusNoOp ==
  (/\ last'.op = "SetSpanStatus"
   /\ last'.span # 0
   /\ last'.prior = [set |-> TRUE, Code |-> last'.code, Message |-> last'.message])
    => spans' = spans

\* C10: after SetSpanStatus calls on a span its status is that of the last
\* call, a repeated call changes nothing, and on the nil span the call does
\* nothing.
C10_StatusOverwrite ==
  []StatusIsLast /\ [][NilStatusNoOp /\ SameStatusNoOp]_vars

\* a call with the code 2 on a span that had the status 0, "OK"
C10_Witness ==
  /\ last.op = "SetSpanStatus"
  /\ last.span = 1
  /\ last.prior = [set |-> TRUE, Code |-> 0, Message |-> "OK"]
  /\ last.code = 2
  /\ spans[1].status = [set |-> TRUE, Code |-> 2, Message |-> "failed"]

====
